---- MODULE Spec2Model ----
(***************************************************************************)
(* A model of the sequence-comparison library `distance`                   *)
(* (src/distance/distance.py and the wrappers of src/distance/__init__.py).*)
(*                                                                         *)
(* Every function of the library is pure; each is modelled by an operator  *)
(* computed the way the Python code computes it (same loops, same rolling  *)
(* arrays, same indices).  A call is one action: it reads the arguments    *)
(* held in the state and stores what the call returned or raised.  The     *)
(* generator ifast_comp is the one stateful object: it is modelled by its  *)
(* position in the candidate source and the pairs it has yielded so far.   *)
(*                                                                         *)
(* Python sequences are 0-based; the operators keep the source's 0-based   *)
(* indices and read elements through At.                                   *)
(***************************************************************************)
EXTENDS Integers, Sequences, FiniteSets, TLC

\* ------------------------------------------------------------------ bounds

\* Longest argument sequence of a modelled call.
MaxLen == 4
\* Number of distinct elements an argument sequence is built from.
NumSyms == 2
\* Longest candidate source handed to ifast_comp.
MaxCands == 3

Letters == <<"a", "b", "c", "d", "e", "f">>
Alphabet == {Letters[k] : k \in 1..NumSyms}

SeqsOfLen(n) == [1..n -> Alphabet]
Seqs == UNION {SeqsOfLen(n) : n \in 0..MaxLen}

\* ------------------------------------------------------------------- state

VARIABLES
  seq1,   \* first argument of the call (the reference string of ifast_comp)
  seq2,   \* second argument of the call
  flag,   \* the boolean keyword argument: normalized, transpositions or positions
  op,     \* the function that was called, "none" before the call
  ret,    \* the value the call returned
  exc,    \* the exception the call raised, "none" if it raised none
  strs,   \* the candidate source handed to ifast_comp
  pos,    \* number of candidates the generator has taken from the source
  out,    \* the pairs the generator has yielded, in order
  pc      \* the generator: "idle" (none), "created", "suspended", "done"

vars == <<seq1, seq2, flag, op, ret, exc, strs, pos, out, pc>>

\* --------------------------------------------------------- Python helpers

\* s[i] with Python's 0-based index.
At(s, i) == s[i + 1]

\* s[i:] (Python slice, 0-based start).
SliceFrom(s, i) == SubSeq(s, i + 1, Len(s))

\* s.count(x)
Count(s, x) == Cardinality({k \in 1..Len(s) : s[k] = x})

\* min(a, b)
Min(a, b) == IF a < b THEN a ELSE b

\* max(a, b)
Max(a, b) == IF a < b THEN b ELSE a

\* set(seq)
ToSet(s) == {s[k] : k \in 1..Len(s)}

\* A float produced by a true division num / float(den), kept exact.
Frac(num, den) == [num |-> num, den |-> den]

\* What a call hands back: a returned value, or a raised exception.
Return(v) == [exc |-> "none", val |-> v]
Raise(e) == [exc |-> e, val |-> <<>>]

\* -------------------------------------------------------------- fast_comp

replace == "r"
insert == "i"
delete == "d"

\* Models without the two-substitution hypothesis for equal lengths.
ModelsWithoutReplace(ldiff) ==
  IF ldiff = 0 THEN << <<insert, delete>>, <<delete, insert>> >>
  ELSE IF ldiff = 1 THEN << <<delete, replace>>, <<replace, delete>> >>
  ELSE << <<delete, delete>> >>

\* The edit models tried for a length difference ldiff in 0..2.
Models(ldiff) ==
  IF ldiff = 0 THEN << <<insert, delete>>, <<delete, insert>>, <<replace, replace>> >>
  ELSE IF ldiff = 1 THEN << <<delete, replace>>, <<replace, delete>> >>
  ELSE << <<delete, delete>> >>

\* A transposition test that never recognises a swap.
IsTranspositionNever(str1, str2, transpositions, i, j) == FALSE

\* The test that takes a mismatch at (i, j) as one adjacent transposition.
IsTransposition(str1, str2, transpositions, i, j) ==
  LET L1 == Len(str1)
      L2 == Len(str2)
  IN  /\ transpositions
      /\ L1 - L2 # 2
      /\ i < L1 - 1
      /\ j < L2 - 1
      /\ At(str1, i + 1) = At(str2, j)
      /\ At(str1, i) = At(str2, j + 1)

\* The while loop of one model, from cursors (i, j) and cost c to the
\* cursors and cost at which the loop is left.
RECURSIVE Walk(_, _, _, _, _, _, _)
Walk(str1, str2, model, transpositions, i, j, c) ==
  IF ~(i < Len(str1) /\ j < Len(str2))
  THEN [i |-> i, j |-> j, c |-> c]
  ELSE IF At(str1, i) # At(str2, j)
  THEN IF 2 < c + 1
       THEN [i |-> i, j |-> j, c |-> c + 1]
       ELSE IF IsTransposition(str1, str2, transpositions, i, j)
       THEN Walk(str1, str2, model, transpositions, i + 2, j + 2, c + 1)
       ELSE LET cmd == At(model, (c + 1) - 1)
            IN  IF cmd = delete
                THEN Walk(str1, str2, model, transpositions, i + 1, j, c + 1)
                ELSE IF cmd = insert
                THEN Walk(str1, str2, model, transpositions, i, j + 1, c + 1)
                ELSE Walk(str1, str2, model, transpositions, i + 1, j + 1, c + 1)
  ELSE Walk(str1, str2, model, transpositions, i + 1, j + 1, c)

\* What is left of a sequence after the loop: the cost of the model with the
\* leftover absorbed by its remaining operations, or 3 when the model is
\* given up (`continue`).
Leftover(str1, str2, model, w) ==
  LET L1 == Len(str1)
      L2 == Len(str2)
  IN  IF 2 < w.c THEN 3
      ELSE IF w.i < L1
      THEN IF L1 - w.i <= Count(SliceFrom(model, w.c), delete)
           THEN w.c + (L1 - w.i)
           ELSE 3
      ELSE IF w.j < L2
      THEN IF L2 - w.j <= Count(SliceFrom(model, w.c), insert)
           THEN w.c + (L2 - w.j)
           ELSE 3
      ELSE w.c

\* One iteration of `for model in models`: the new value of res.
TryModel(str1, str2, model, transpositions, res) ==
  LET c == Leftover(str1, str2, model,
                    Walk(str1, str2, model, transpositions, 0, 0, 0))
  IN  IF c < res THEN c ELSE res

\* The loop over the models, from the k-th on.
RECURSIVE ForModels(_, _, _, _, _, _)
ForModels(str1, str2, models, transpositions, k, res) ==
  IF k > Len(models) THEN res
  ELSE ForModels(str1, str2, models, transpositions, k + 1,
                 TryModel(str1, str2, models[k], transpositions, res))

\* fast_comp that hands back res as it is, 3 when no model succeeded.
FastCompOrderedRaw(str1, str2, transpositions) ==
  LET ldiff == Len(str1) - Len(str2)
  IN  IF ldiff > 2 THEN -1
      ELSE ForModels(str1, str2, Models(ldiff), transpositions, 1, 3)

\* fast_comp with the longer string first.
FastCompOrdered(str1, str2, transpositions) ==
  LET ldiff == Len(str1) - Len(str2)
  IN  IF ldiff > 2 THEN -1
      ELSE LET res == ForModels(str1, str2, Models(ldiff), transpositions, 1, 3)
           IN  IF res = 3 THEN -1 ELSE res

fast_comp(str1, str2, transpositions) ==
  IF Len(str1) < Len(str2)
  THEN FastCompOrdered(str2, str1, transpositions)
  ELSE FastCompOrdered(str1, str2, transpositions)

\* quick_levenshtein of the package's __init__.
quick_levenshtein(str1, str2) == fast_comp(str1, str2, FALSE)

\* ------------------------------------------------------------- ifast_comp

\* The index (from 1) of the first candidate at or after index k whose
\* distance is not -1 when nothing is filtered: the candidate at k itself.
FirstPassingUnfiltered(str1, source, transpositions, k) == k

\* The loop `for str2 in strs` resumed at candidate k (from 1): the index of
\* the candidate at which the generator yields, Len(source) + 1 when the
\* source runs out first.
RECURSIVE FirstPassing(_, _, _, _)
FirstPassing(str1, source, transpositions, k) ==
  IF k > Len(source) THEN k
  ELSE IF fast_comp(str1, source[k], transpositions) # -1 THEN k
  ELSE FirstPassing(str1, source, transpositions, k + 1)

\* The names bound in the namespace of the package's __init__ once it is
\* imported: what `from .distance import *` brings in, and its own two
\* functions.
ModuleNames ==
  {"array", "hamming", "levenshtein", "jaccard", "sorensen", "fast_comp",
   "ifast_comp", "lcsubstrings", "quick_levenshtein", "iquick_levenshtein"}

\* The evaluation of a name in a function of __init__: a local of the
\* function, else a name of the module, else NameError (no builtin is named
\* str1, str2 or strs).
Lookup(name, locals) ==
  IF name \in DOMAIN locals THEN Return(locals[name])
  ELSE IF name \in ModuleNames THEN Return([function |-> name])
  ELSE Raise("NameError")

\* ---------------------------------------------------------------- hamming

\* The float literals 0.0 and 1.0.
Float0 == Frac(0, 1)
Float1 == Frac(1, 1)

\* num / float(den)
TrueDivUnguarded(num, den) == Return(Frac(num, den))

TrueDiv(num, den) ==
  IF den = 0 THEN Raise("ZeroDivisionError") ELSE Return(Frac(num, den))

\* sum(c1 != c2 for c1, c2 in zip(seq1, seq2)); zip stops at the shorter.
ZipMismatches(s1, s2) ==
  Cardinality({k \in 1..Min(Len(s1), Len(s2)) : s1[k] # s2[k]})

\* hamming without the test of the lengths.
hammingUnchecked(s1, s2, normalized) ==
  IF Len(s1) = 0 THEN Return(IF normalized THEN Float0 ELSE 0)
  ELSE IF normalized THEN TrueDiv(ZipMismatches(s1, s2), Len(s1))
  ELSE Return(ZipMismatches(s1, s2))

hamming(s1, s2, normalized) ==
  LET L == Len(s1)
  IN  IF L # Len(s2) THEN Raise("ValueError")
      ELSE IF L = 0 THEN Return(IF normalized THEN Float0 ELSE 0)
      ELSE LET dist == ZipMismatches(s1, s2)
           IN  IF normalized THEN TrueDiv(dist, L) ELSE Return(dist)

\* ------------------------------------------------------ jaccard, sorensen

\* 1 - q for the float q handed back by a division.
OneMinus(q) ==
  IF q.exc # "none" THEN q
  ELSE Return(Frac(q.val.den - q.val.num, q.val.den))

jaccard(s1, s2) ==
  LET set1 == ToSet(s1)
      set2 == ToSet(s2)
  IN  OneMinus(TrueDiv(Cardinality(set1 \cap set2), Cardinality(set1 \cup set2)))

sorensen(s1, s2) ==
  LET set1 == ToSet(s1)
      set2 == ToSet(s2)
  IN  OneMinus(TrueDiv(2 * Cardinality(set1 \cap set2),
                       Cardinality(set1) + Cardinality(set2)))

\* ------------------------------------------------------------ levenshtein

\* A cell that reads the cell above in place of the diagonal scalar.
LevCellNoDiagonal(column, y, last, cost) ==
  Min(At(column, y) + 1, Min(At(column, y - 1) + 1, At(column, y) + cost))

\* The new value of column[y].
LevCell(column, y, last, cost) ==
  Min(At(column, y) + 1, Min(At(column, y - 1) + 1, last + cost))

\* The loop `for y in range(1, len2 + 1)` of row x, from y on: the column
\* at the end of the row.
RECURSIVE LevInner(_, _, _, _, _, _)
LevInner(s1, s2, x, y, column, last) ==
  IF y > Len(s2) THEN column
  ELSE LET old == At(column, y)
           cost == IF At(s1, x - 1) # At(s2, y - 1) THEN 1 ELSE 0
       IN  LevInner(s1, s2, x, y + 1,
                    [column EXCEPT ![y + 1] = LevCell(column, y, last, cost)],
                    old)

\* The loop `for x in range(1, len1 + 1)`, from x on.
RECURSIVE LevOuter(_, _, _, _)
LevOuter(s1, s2, x, column) ==
  IF x > Len(s1) THEN column
  ELSE LevOuter(s1, s2, x + 1,
                LevInner(s1, s2, x, 1, [column EXCEPT ![1] = x], x - 1))

\* The part of levenshtein after the swap: s1 is the longer sequence.
LevOrdered(s1, s2, normalized) ==
  LET len1 == Len(s1)
      len2 == Len(s2)
      column == LevOuter(s1, s2, 1, [k \in 1..(len1 + 1) |-> k - 1])
  IN  IF normalized
      THEN TrueDiv(At(column, len2), Max(len1, len2))
      ELSE Return(At(column, len2))

levenshtein(s1, s2, normalized) ==
  LET len1 == Len(s1)
      len2 == Len(s2)
  IN  IF s1 = s2 THEN Return(IF normalized THEN Float0 ELSE 0)
      ELSE IF len1 = 0 THEN Return(IF normalized THEN Float1 ELSE len2)
      ELSE IF len2 = 0 THEN Return(IF normalized THEN Float1 ELSE len1)
      ELSE IF len1 < len2 THEN LevOrdered(s2, s1, normalized)
      ELSE LevOrdered(s1, s2, normalized)

\* ----------------------------------------------------------- lcsubstrings

\* A record of matches that keeps only the first match of the longest length.
LcsRecordFirstOnly(st, i, j, v) ==
  IF v > st.mlen THEN [st EXCEPT !.mlen = v, !.ms = << <<i, j>> >>] ELSE st

\* The update of mlen and ms for a match of length v ending at (i, j).
LcsRecord(st, i, j, v) ==
  IF v > st.mlen THEN [st EXCEPT !.mlen = v, !.ms = << <<i, j>> >>]
  ELSE IF v = st.mlen THEN [st EXCEPT !.ms = Append(st.ms, <<i, j>>)]
  ELSE st

\* The body of the inner loop at (i, j) on the locals
\* st = [column, last, mlen, ms].
LcsStep(s1, s2, i, j, st) ==
  LET old == At(st.column, j)
      matched == At(s1, i) = At(s2, j)
      v == IF ~matched THEN 0
           ELSE IF i = 0 \/ j = 0 THEN 1
           ELSE st.last + 1
      st1 == [st EXCEPT !.column[j + 1] = v]
      st2 == IF matched THEN LcsRecord(st1, i, j, v) ELSE st1
  IN  [st2 EXCEPT !.last = old]

\* The two nested loops, from (i, j) on.
RECURSIVE LcsLoop(_, _, _, _, _)
LcsLoop(s1, s2, i, j, st) ==
  IF i >= Len(s1) THEN st
  ELSE IF j >= Len(s2) THEN LcsLoop(s1, s2, i + 1, 0, st)
  ELSE LcsLoop(s1, s2, i, j + 1, LcsStep(s1, s2, i, j, st))

\* s[lo:hi] for 0 <= lo <= hi <= len(s)
Slice(s, lo, hi) == SubSeq(s, lo + 1, hi)

lcsubstrings(s1, s2, positions) ==
  LET L2 == Len(s2)
      st == LcsLoop(s1, s2, 0, 0,
                    [column |-> [k \in 1..L2 |-> k - 1],
                     last |-> 0, mlen |-> 0, ms |-> <<>>])
      mlen == st.mlen
      ms == st.ms
  IN  IF positions
      THEN Return(<<mlen, [k \in 1..Len(ms) |->
                             <<ms[k][1] - mlen + 1, ms[k][2] - mlen + 1>>]>>)
      ELSE Return({Slice(s1, ms[k][1] - mlen + 1, ms[k][1] + 1) : k \in 1..Len(ms)})

\* ------------------------------------------------------------------ calls

InitArgs ==
  /\ seq1 \in Seqs
  /\ seq2 \in Seqs
  /\ flag = FALSE
  /\ op = "none"
  /\ ret = <<>>
  /\ exc = "none"
  /\ strs = <<>>
  /\ pos = 0
  /\ out = <<>>
  /\ pc = "idle"

\* The call of a pure function named name, handing back r.
Call(name, flagValue, r) ==
  /\ op = "none"
  /\ op' = name
  /\ flag' = flagValue
  /\ ret' = r.val
  /\ exc' = r.exc
  /\ UNCHANGED <<seq1, seq2, strs, pos, out, pc>>

CallFastComp ==
  \E transpositions \in BOOLEAN :
    Call("fast_comp", transpositions, Return(fast_comp(seq1, seq2, transpositions)))

CallQuickLevenshtein ==
  Call("quick_levenshtein", FALSE, Return(quick_levenshtein(seq1, seq2)))

NextFast == CallFastComp \/ CallQuickLevenshtein

SpecFast == InitArgs /\ [][NextFast]_vars

CallLevenshtein ==
  \E normalized \in BOOLEAN :
    Call("levenshtein", normalized, levenshtein(seq1, seq2, normalized))

NextLev == CallLevenshtein

SpecLev == InitArgs /\ [][NextLev]_vars

CallLcsubstrings ==
  \E positions \in BOOLEAN :
    Call("lcsubstrings", positions, lcsubstrings(seq1, seq2, positions))

NextLcs == CallLcsubstrings

SpecLcs == InitArgs /\ [][NextLcs]_vars

CallHamming ==
  \E normalized \in BOOLEAN :
    Call("hamming", normalized, hamming(seq1, seq2, normalized))

CallJaccard == Call("jaccard", FALSE, jaccard(seq1, seq2))

CallSorensen == Call("sorensen", FALSE, sorensen(seq1, seq2))

NextSets == CallHamming \/ CallJaccard \/ CallSorensen

SpecSets == InitArgs /\ [][NextSets]_vars

\* The strings of the doctest of ifast_comp.
Fo == <<"f", "o">>
Bar == <<"b", "a", "r">>
Foob == <<"f", "o", "o", "b">>
Foo == <<"f", "o", "o">>
Foobaz == <<"f", "o", "o", "b", "a", "z">>
DocStrings == {Fo, Bar, Foob, Foo, Foobaz}

\* The candidate sources: the finite sequences of doctest strings.
Sources == UNION {[1..n -> DocStrings] : n \in 0..MaxCands}

InitGen ==
  /\ seq1 \in DocStrings
  /\ strs \in Sources
  /\ seq2 = <<>>
  /\ flag = FALSE
  /\ op = "none"
  /\ ret = <<>>
  /\ exc = "none"
  /\ pos = 0
  /\ out = <<>>
  /\ pc = "idle"

\* ifast_comp(seq1, strs, transpositions): the call of a generator function
\* makes the generator and runs none of its body.
CallIfastComp ==
  \E transpositions \in BOOLEAN :
    /\ op = "none"
    /\ op' = "ifast_comp"
    /\ flag' = transpositions
    /\ pc' = "created"
    /\ UNCHANGED <<seq1, seq2, ret, exc, strs, pos, out>>

\* iquick_levenshtein(seq1, strs): its body evaluates the name str2 and
\* hands the value to ifast_comp as the candidate source.
CallIquickLevenshtein ==
  LET source == Lookup("str2", [str1 |-> seq1, strs |-> strs])
  IN  /\ op = "none"
      /\ op' = "iquick_levenshtein"
      /\ flag' = FALSE
      /\ exc' = source.exc
      /\ IF source.exc = "none"
         THEN strs' = source.val /\ pc' = "created"
         ELSE UNCHANGED <<strs, pc>>
      /\ UNCHANGED <<seq1, seq2, ret, pos, out>>

\* The generator can be resumed: it was made and its body has not returned.
Resumable == pc \in {"created", "suspended"}

\* next() on the generator: the loop runs on from the candidate after the
\* last one taken, to the next yield or to the end of the source.
GenNext ==
  /\ Resumable
  /\ LET k == FirstPassing(seq1, strs, flag, pos + 1)
     IN  IF k <= Len(strs)
         THEN /\ out' = Append(out, <<fast_comp(seq1, strs[k], flag), strs[k]>>)
              /\ pos' = k
              /\ pc' = "suspended"
         ELSE /\ out' = out
              /\ pos' = Len(strs)
              /\ pc' = "done"
  /\ UNCHANGED <<seq1, seq2, flag, op, ret, exc, strs>>

NextGen == CallIfastComp \/ CallIquickLevenshtein \/ GenNext

SpecGen == InitGen /\ [][NextGen]_vars

\* ------------------------------------------------ claims about fast_comp

Min3(a, b, c) == Min(a, Min(b, c))

\* The Levenshtein distance as the value of the full-matrix recurrence
\*   D[0, j] = j,  D[i, 0] = i,
\*   D[i, j] = min(D[i-1, j] + 1, D[i, j-1] + 1, D[i-1, j-1] + [a_i # b_j]),
\* where D[i, j] is the distance between the first i elements of a and the
\* first j elements of b.  The matrix is filled row by row; a row is the
\* tuple of its cells D[i, 0..Len(b)].

\* Row i, given row i-1 (prev) and the cells of row i filled so far (cur).
RECURSIVE LevRefRow(_, _, _, _, _)
LevRefRow(a, b, i, prev, cur) ==
  IF Len(cur) = Len(b) + 1 THEN cur
  ELSE LET j == Len(cur)
       IN  LevRefRow(a, b, i, prev,
                     Append(cur, Min3(prev[j + 1] + 1,
                                      cur[j] + 1,
                                      prev[j] + (IF a[i] = b[j] THEN 0 ELSE 1))))

\* The last row of the matrix, given row i-1.
RECURSIVE LevRefRows(_, _, _, _)
LevRefRows(a, b, i, prev) ==
  IF i > Len(a) THEN prev
  ELSE LevRefRows(a, b, i + 1, LevRefRow(a, b, i, prev, <<i>>))

LevRef(a, b) ==
  LevRefRows(a, b, 1, [j \in 1..(Len(b) + 1) |-> j - 1])[Len(b) + 1]

\* C1: whenever the Levenshtein distance of the arguments is at most 2,
\* fast_comp without transpositions returns exactly that distance.
C1_FastCompExact ==
  (op = "fast_comp" /\ ~flag /\ LevRef(seq1, seq2) <= 2)
    => (exc = "none" /\ ret = LevRef(seq1, seq2))

\* C1 witness: a call on arguments of different lengths at distance 2,
\* answered 2.
C1_Witness ==
  /\ op = "fast_comp" /\ ~flag
  /\ Len(seq1) < Len(seq2)
  /\ LevRef(seq1, seq2) = 2
  /\ ret = 2

\* C2: whenever the Levenshtein distance of the arguments is greater than
\* 2, fast_comp without transpositions returns -1; in particular whenever
\* the lengths differ by more than 2.
C2_FastCompSentinel ==
  (op = "fast_comp" /\ ~flag)
    => /\ (LevRef(seq1, seq2) > 2 => (exc = "none" /\ ret = -1))
       /\ ((Len(seq1) - Len(seq2) > 2 \/ Len(seq2) - Len(seq1) > 2)
             => (exc = "none" /\ ret = -1))

\* C2 witness: a call on arguments of equal length at distance 3,
\* answered -1.
C2_Witness ==
  /\ op = "fast_comp" /\ ~flag
  /\ Len(seq1) = Len(seq2)
  /\ LevRef(seq1, seq2) > 2
  /\ ret = -1

\* t is s with the unequal elements at 0-based positions k and k+1 swapped.
SwappedAt(s, t, k) ==
  /\ Len(t) = Len(s)
  /\ At(s, k) # At(s, k + 1)
  /\ At(t, k) = At(s, k + 1)
  /\ At(t, k + 1) = At(s, k)
  /\ \A n \in 0..(Len(s) - 1) : (n # k /\ n # k + 1) => At(t, n) = At(s, n)

AdjacentSwap(s, t) == \E k \in 0..(Len(s) - 2) : SwappedAt(s, t, k)

\* C6: when the second argument is the first with one pair of adjacent,
\* unequal elements swapped, fast_comp returns 1 with transpositions and 2
\* without.
C6_AdjacentSwap ==
  (op = "fast_comp" /\ AdjacentSwap(seq1, seq2))
    => (exc = "none" /\ ret = IF flag THEN 1 ELSE 2)

\* C6 witness: a call with transpositions on a swap that is not at the
\* front of the sequences, answered 1.
C6_Witness ==
  /\ op = "fast_comp" /\ flag
  /\ \E k \in 1..(Len(seq1) - 2) : SwappedAt(seq1, seq2, k)
  /\ ret = 1

\* C9: when fast_comp without transpositions returns a distance d other
\* than -1, fast_comp with transpositions on the same arguments returns
\* neither -1 nor more than d.
C9_TranspositionsNeverWorse ==
  (op = "fast_comp" /\ ~flag /\ ret # -1)
    => fast_comp(seq1, seq2, TRUE) \in 0..ret

\* ---------------------------------------------- claims about levenshtein

\* C3: levenshtein without normalization returns the value of the
\* full-matrix edit-distance recurrence, whichever argument is longer: the
\* same value with the arguments exchanged, 0 on equal arguments, and the
\* length of the other argument when one is empty.
C3_LevenshteinIsEditDistance ==
  (op = "levenshtein" /\ ~flag)
    => /\ exc = "none"
       /\ ret = LevRef(seq1, seq2)
       /\ levenshtein(seq2, seq1, FALSE) = Return(ret)
       /\ (seq1 = seq2 => ret = 0)
       /\ (Len(seq1) = 0 => ret = Len(seq2))

\* C3 witness: a call with a shorter, non-empty first argument (the
\* arguments are exchanged) at a distance above the difference of lengths.
C3_Witness ==
  /\ op = "levenshtein" /\ ~flag
  /\ 0 < Len(seq1) /\ Len(seq1) < Len(seq2)
  /\ ret > Len(seq2) - Len(seq1)
  /\ ret = LevRef(seq1, seq2)

\* --------------------------------------------- claims about lcsubstrings

\* The m elements of a from offset s1 equal the m elements of b from s2.
CommonAt(a, b, s1, s2, m) ==
  /\ s1 + m <= Len(a)
  /\ s2 + m <= Len(b)
  /\ \A k \in 0..(m - 1) : At(a, s1 + k) = At(b, s2 + k)

\* The offset pairs at which a and b share a run of m elements.
CommonOffsets(a, b, m) ==
  {p \in (0..Len(a)) \X (0..Len(b)) : CommonAt(a, b, p[1], p[2], m)}

\* The length of the longest run of elements occurring in both sequences.
LongestCommon(a, b) ==
  CHOOSE m \in 0..Min(Len(a), Len(b)) :
    /\ CommonOffsets(a, b, m) # {}
    /\ \A n \in (m + 1)..Min(Len(a), Len(b)) : CommonOffsets(a, b, n) = {}

\* C4: lcsubstrings with positions returns (m, P), m the length of the
\* longest run common to both sequences; when m > 0, P lists exactly once
\* every pair of start offsets of a common run of length m; when m = 0, P
\* is empty.
C4_LcsPositions ==
  (op = "lcsubstrings" /\ flag)
    => /\ exc = "none"
       /\ ret[1] = LongestCommon(seq1, seq2)
       /\ \A k, n \in 1..Len(ret[2]) : ret[2][k] = ret[2][n] => k = n
       /\ ret[1] > 0 => ToSet(ret[2]) = CommonOffsets(seq1, seq2, ret[1])
       /\ ret[1] = 0 => ret[2] = <<>>

\* C4 witness: a call answered with a longest run of at least 2 elements
\* found at more than one place, one of them not at the start of either
\* sequence.
C4_Witness ==
  /\ op = "lcsubstrings" /\ flag
  /\ ret[1] >= 2
  /\ Len(ret[2]) >= 2
  /\ \E k \in 1..Len(ret[2]) : ret[2][k][1] > 0 /\ ret[2][k][2] > 0

\* ------------------------- claims about hamming, jaccard and sorensen

\* C7: hamming raises an error and returns no value when the lengths of its
\* arguments differ, with either value of normalized; it raises none when
\* they are equal.
C7_HammingRaisesOnUnequalLengths ==
  (op = "hamming")
    => /\ (Len(seq1) # Len(seq2) => (exc = "ValueError" /\ ret = <<>>))
       /\ (Len(seq1) = Len(seq2) => exc = "none")

\* C7 witness: a normalized call on non-empty arguments of different
\* lengths, which raised.
C7_Witness ==
  /\ op = "hamming" /\ flag
  /\ 0 < Len(seq1) /\ Len(seq1) < Len(seq2)
  /\ exc = "ValueError"

\* C8: jaccard and sorensen raise a division-by-zero error exactly when
\* both arguments are empty, and return a value without error otherwise.
C8_SetDistancesDivideByZero ==
  (op \in {"jaccard", "sorensen"})
    => /\ (exc = "ZeroDivisionError" <=> (Len(seq1) = 0 /\ Len(seq2) = 0))
       /\ exc \in {"none", "ZeroDivisionError"}
       /\ (exc = "none" => ret \in [num : Int, den : Int \ {0}])

\* C8 witness: sorensen called on two empty sequences, which raised.
C8_Witness ==
  /\ op = "sorensen"
  /\ Len(seq1) = 0 /\ Len(seq2) = 0
  /\ exc = "ZeroDivisionError"

\* ---------------------------- claims about ifast_comp and the wrappers

\* The pairs (fast_comp(str1, cand), cand) of the candidates of source whose
\* fast_comp is not -1, in the order of source.
PassingPairs(str1, source, transpositions) ==
  LET Passes(cand) == fast_comp(str1, cand, transpositions) # -1
      kept == SelectSeq(source, Passes)
  IN  [k \in 1..Len(kept) |-> <<fast_comp(str1, kept[k], transpositions), kept[k]>>]

\* C5: the pairs ifast_comp has produced are, in the order of the source,
\* the pairs (fast_comp(seq1, cand, transpositions), cand) of the candidates
\* taken so far whose fast_comp is not -1, none of them with distance -1,
\* none skipped or produced twice; the generator finishes only when the
\* source is exhausted, and until it has finished it can be resumed.
C5_IfastCompFilters ==
  (op = "ifast_comp")
    => /\ out = PassingPairs(seq1, SubSeq(strs, 1, pos), flag)
       /\ \A k \in 1..Len(out) : out[k][1] # -1
       /\ (pc = "suspended" => (pos >= 1 /\ out[Len(out)][2] = strs[pos]))
       /\ (pc = "done" => (pos = Len(strs) /\ out = PassingPairs(seq1, strs, flag)))
       /\ (pc # "done" => Resumable)
       /\ exc = "none"

\* C5 witness: a generator that has finished after dropping a candidate
\* and yielding at least two pairs, the dropped one ahead of a yielded one.
C5_Witness ==
  /\ op = "ifast_comp"
  /\ pc = "done"
  /\ Len(out) >= 2
  /\ fast_comp(seq1, strs[1], flag) = -1

\* C10: iquick_levenshtein(seq1, strs) produces the pairs of
\* ifast_comp(seq1, strs, transpositions=False), and
\* quick_levenshtein(seq1, seq2) returns fast_comp(seq1, seq2, False).
C10_WrappersAgree ==
  /\ (op = "iquick_levenshtein")
       => /\ exc = "none"
          /\ out = PassingPairs(seq1, SubSeq(strs, 1, pos), FALSE)
          /\ (pc = "done" => out = PassingPairs(seq1, strs, FALSE))
  /\ (op = "quick_levenshtein")
       => (exc = "none" /\ ret = fast_comp(seq1, seq2, FALSE))

====
